---- MODULE Spec2Model ----
(***************************************************************************)
(* The evaluation driver of 3d_classification/torch/                       *)
(* densenet_evaluation_dict.py: main() as a state machine, one action per  *)
(* statement (or group of statements that cannot fail apart), with the     *)
(* program counter pc naming the next statement.                           *)
(*                                                                         *)
(* The manifest, the selected index range range(lo, hi) (range(21, 30) in  *)
(* the script), the loader's batch_size (2 in the script) and the          *)
(* classifier's outputs are the inputs.  The range and the batch size are  *)
(* literals of the script; they are drawn here from small sets, the        *)
(* manifest being scaled down with them, so that a range can be empty,     *)
(* can run past the manifest, and need not be a multiple of the batch      *)
(* size.  A manifest entry may lack its content.url or its note.text, and  *)
(* a url may be absolute.                                                  *)
(*                                                                         *)
(* An exception raised by any statement leaves main(): the script has no   *)
(* try/except/finally, so nothing of main() runs after it; the only thing  *)
(* that runs is the exit of the `with torch.no_grad()` block.              *)
(***************************************************************************)
EXTENDS Integers, Sequences, FiniteSets

\* ------------------------------------------------------------------ bounds
\* The longest manifest (number of elements of datalist["entry"]).
MaxEntries == 3
\* The largest batch_size of the DataLoader.
MaxBatch == 2

\* ------------------------------------------------------- program constants
\* out_channels of densenet121: argmax(dim=1) yields a class in 0..OutChannels-1.
OutChannels == 2

Classes == 0 .. (OutChannels - 1)

\* The note texts of the manifests enumerated: the two expected ones, the
\* empty string and an unexpected spelling.
Texts == {"man", "woman", "", "Man"}

\* os.sep.join(["workspace", "data", "medical", "ixi", "IXI-T1"]), kept as
\* its components.
dirpath == <<"workspace", "data", "medical", "ixi", "IXI-T1">>

\* A path or url is [dir, name]: the components of its directory and the
\* file it names.  An absolute one has the root "/" as its first component.
RelativeUrl(f) == [dir |-> <<>>, name |-> f]
AbsoluteUrl(f) == [dir |-> <<"/", "abs">>, name |-> f]

VARIABLES
    pc,            \* the next statement of main()
    err,           \* "none", or the exception that left main()
    datalist,      \* json.load's result: [has_entry, entry |-> the entries]
    lo, hi,        \* the selected range(lo, hi) of manifest indices
    batch_size,    \* DataLoader(batch_size=...)
    images,        \* line 34
    labels,        \* lines 36-37
    val_files,     \* line 39
    loaded,        \* the model holds the checkpoint's parameters
    training,      \* model.training
    grad_enabled,  \* torch.is_grad_enabled()
    num_correct,   \* line 63
    metric_count,  \* line 64
    saver_created, \* CSVSaver(...) has been constructed
    saver_calls,   \* the calls the driver made on the saver, in order
    pos,           \* samples the loader has handed out so far
    val_data,      \* the current batch: [label, img_meta_dict]
    val_outputs,   \* line 68
    value,         \* line 69
    metric,        \* <<>> until line 73 computes it, then <<quotient>>
    printed        \* the metrics printed by line 74, in order

vars == <<pc, err, datalist, lo, hi, batch_size, images, labels, val_files,
          loaded, training, grad_enabled, num_correct, metric_count,
          saver_created, saver_calls, pos, val_data, val_outputs, value,
          metric, printed>>

\* ----------------------------------------------------------- pure helpers

Min(a, b) == IF a < b THEN a ELSE b

\* Python's range(a, b) as a sequence: a, a+1, ..., b-1; empty when b <= a.
Range(a, b) == [j \in 1 .. (IF b > a THEN b - a ELSE 0) |-> a + j - 1]

\* datalist["entry"][i], i counted from 0 as in Python.
EntryAt(d, i) == d.entry[i + 1]

\* datalist["entry"][i] raises IndexError for an i past the end of the list.
InRange(d, i) == i < Len(d.entry)

\* What datalist["entry"][i]["resource"]["content"]["url"] raises: KeyError
\* for a manifest without "entry", IndexError for an i past the end,
\* KeyError for an entry without the field; "none" when it yields the url.
UrlFault(d, i) ==
    IF ~d.has_entry THEN "KeyError"
    ELSE IF ~InRange(d, i) THEN "IndexError"
    ELSE IF ~EntryAt(d, i).has_url THEN "KeyError"
    ELSE "none"

\* What datalist["entry"][i]["resource"]["note"]["text"] raises.
TextFault(d, i) ==
    IF ~d.has_entry THEN "KeyError"
    ELSE IF ~InRange(d, i) THEN "IndexError"
    ELSE IF ~EntryAt(d, i).has_text THEN "KeyError"
    ELSE "none"

\* A list comprehension ends with the exception of its first failing element.
FirstFault(faults) ==
    LET bad == {j \in 1 .. Len(faults) : faults[j] # "none"}
    IN  IF bad = {} THEN "none"
        ELSE faults[CHOOSE j \in bad : \A j2 \in bad : j <= j2]

\* The exception of line 34, of line 36 ("none": the list is built).
ImagesFault(d, a, b) ==
    FirstFault([j \in 1 .. Len(Range(a, b)) |-> UrlFault(d, Range(a, b)[j])])
LabelsFault(d, a, b) ==
    FirstFault([j \in 1 .. Len(Range(a, b)) |-> TextFault(d, Range(a, b)[j])])

\* os.path.isabs(url).
IsAbs(url) == url.dir # <<>> /\ Head(url.dir) = "/"

\* os.path.join(dirpath, url): an absolute url discards dirpath.
JoinPath(dir, url) ==
    IF IsAbs(url) THEN url ELSE [dir |-> dir \o url.dir, name |-> url.name]

\* 0 if text == "man" else 1 (line 36).
Label_OnlyWoman(text) == IF text = "woman" THEN 1 ELSE 0
Label(text) == IF text = "man" THEN 0 ELSE 1

\* The list comprehension of line 34 over range(a, b).
Images_Reversed(d, a, b) ==
    LET r == Range(a, b)
    IN  [j \in 1 .. Len(r) |->
            JoinPath(dirpath, EntryAt(d, r[Len(r) + 1 - j]).url)]
Images(d, a, b) ==
    LET r == Range(a, b)
    IN  [j \in 1 .. Len(r) |-> JoinPath(dirpath, EntryAt(d, r[j]).url)]

\* The list comprehension of line 36 over range(a, b).
Labels(d, a, b) ==
    LET r == Range(a, b)
    IN  [j \in 1 .. Len(r) |-> Label(EntryAt(d, r[j]).text)]

\* [{"img": img, "label": label} for img, label in zip(images, labels)].
ValFiles(imgs, lbls) ==
    [j \in 1 .. Min(Len(imgs), Len(lbls)) |->
        [img |-> imgs[j], label |-> lbls[j]]]

\* The loader is exhausted once every sample of the dataset was handed out.
Exhausted_DropLast(p, k, b) == p + b > k
Exhausted_AfterFirst(p, k, b) == p >= Min(k, b)
Exhausted(p, k, b) == p >= k

\* The next batch of the loader: the next batch_size samples, fewer at the end.
BatchSize(p, k, b) == Min(b, k - p)

\* The collated batch: the samples' labels and the metadata of their images.
Collate(files, p, n) ==
    [label         |-> [j \in 1 .. n |-> files[p + j].label],
     img_meta_dict |-> [j \in 1 .. n |-> files[p + j].img]]

\* torch.eq(val_outputs, val_labels): element-wise.
TorchEq_Ne(outs, lbls) == [j \in 1 .. Len(outs) |-> outs[j] # lbls[j]]
TorchEq(outs, lbls) == [j \in 1 .. Len(outs) |-> outs[j] = lbls[j]]

\* value.sum().item(): the number of True elements.
SumTrue(v) == Cardinality({j \in 1 .. Len(v) : v[j]})

\* num_correct / metric_count: Python's true division, kept as the exact
\* quotient num/den; it raises ZeroDivisionError for a zero divisor.
Quotient(n, d) == [num |-> n, den |-> d]

\* ------------------------------------------------------------------- Init

\* The shapes of the entries enumerated: a relative url with each text, an
\* absolute url, an entry without content.url and one without note.text.
Shapes ==
    {[has_url |-> TRUE, absolute |-> FALSE, has_text |-> TRUE, text |-> t] :
        t \in Texts}
    \cup
    {[has_url |-> TRUE, absolute |-> TRUE, has_text |-> TRUE, text |-> "woman"],
     [has_url |-> FALSE, absolute |-> FALSE, has_text |-> TRUE, text |-> "man"],
     [has_url |-> TRUE, absolute |-> FALSE, has_text |-> FALSE, text |-> ""]}

\* The manifest element of shape sh that names image file f; the urls of a
\* manifest enumerated are pairwise different.
MkEntry(sh, f) ==
    [has_url  |-> sh.has_url,
     url      |-> IF sh.absolute THEN AbsoluteUrl(f) ELSE RelativeUrl(f),
     has_text |-> sh.has_text,
     text     |-> sh.text]

\* The manifests enumerated: at most MaxEntries entries, and the manifest
\* without an "entry" field.
Manifests ==
    {[has_entry |-> FALSE, entry |-> <<>>]}
    \cup
    UNION {{[has_entry |-> TRUE,
             entry |-> [j \in 1 .. n |-> MkEntry(x[j], j - 1)]] :
               x \in [1 .. n -> Shapes]} : n \in 0 .. MaxEntries}

Init ==
    /\ pc = "open"
    /\ err = "none"
    /\ datalist \in Manifests
    /\ lo \in 0 .. (MaxEntries + 1)
    /\ hi \in 0 .. (MaxEntries + 1)
    /\ batch_size \in 1 .. MaxBatch
    /\ images = <<>>
    /\ labels = <<>>
    /\ val_files = <<>>
    /\ loaded = FALSE
    /\ training = TRUE
    /\ grad_enabled = TRUE
    /\ num_correct = 0
    /\ metric_count = 0
    /\ saver_created = FALSE
    /\ saver_calls = <<>>
    /\ pos = 0
    /\ val_data = [label |-> <<>>, img_meta_dict |-> <<>>]
    /\ val_outputs = <<>>
    /\ value = <<>>
    /\ metric = <<>>
    /\ printed = <<>>

\* ---------------------------------------------------------------- actions

\* An exception leaves main(): no statement of main() runs after it.  Inside
\* the `with torch.no_grad()` block the block's exit restores the gradient
\* mode, which is enabled outside the block as well.
Raise_Swallowed(e) ==
    /\ pc' = "metric"
    /\ err' = e
    /\ grad_enabled' = grad_enabled
Raise(e) ==
    /\ pc' = "abort"
    /\ err' = e
    /\ grad_enabled' = TRUE

\* The statement completed: go on with statement l.
Goto(l) ==
    /\ pc' = l
    /\ err' = err

\* Lines 31-32: open and json.load; a missing or malformed file raises.
OpenManifest ==
    /\ pc = "open"
    /\ \/ Raise("FileNotFoundError")
       \/ Goto("images") /\ UNCHANGED grad_enabled
    /\ UNCHANGED <<datalist, lo, hi, batch_size, images, labels, val_files,
                   loaded, training, num_correct, metric_count,
                   saver_created, saver_calls, pos, val_data, val_outputs,
                   value, metric, printed>>

\* Line 34: the image paths of the selected entries; an index past the end
\* of the manifest raises IndexError, a missing field KeyError.
BuildImages ==
    /\ pc = "images"
    /\ IF ImagesFault(datalist, lo, hi) = "none"
       THEN /\ images' = Images(datalist, lo, hi)
            /\ Goto("labels")
            /\ UNCHANGED grad_enabled
       ELSE /\ Raise(ImagesFault(datalist, lo, hi))
            /\ UNCHANGED images
    /\ UNCHANGED <<datalist, lo, hi, batch_size, labels, val_files,
                   loaded, training, num_correct, metric_count,
                   saver_created, saver_calls, pos, val_data, val_outputs,
                   value, metric, printed>>

\* Lines 36-37: the labels of the selected entries; an entry without
\* note.text raises KeyError.
BuildLabels ==
    /\ pc = "labels"
    /\ IF LabelsFault(datalist, lo, hi) = "none"
       THEN /\ labels' = Labels(datalist, lo, hi)
            /\ Goto("val_files")
            /\ UNCHANGED grad_enabled
       ELSE /\ Raise(LabelsFault(datalist, lo, hi))
            /\ UNCHANGED labels
    /\ UNCHANGED <<datalist, lo, hi, batch_size, images, val_files,
                   loaded, training, num_correct, metric_count,
                   saver_created, saver_calls, pos, val_data, val_outputs,
                   value, metric, printed>>

\* Line 39 (and the constructions of lines 42-58, which read val_files and
\* build the dataset, the loader and the model, a new module being in
\* training mode).
BuildValFiles ==
    /\ pc = "val_files"
    /\ val_files' = ValFiles(images, labels)
    /\ Goto("load")
    /\ UNCHANGED <<datalist, lo, hi, batch_size, images, labels,
                   loaded, training, grad_enabled, num_correct, metric_count,
                   saver_created, saver_calls, pos, val_data, val_outputs,
                   value, metric, printed>>

\* Line 60: torch.load and load_state_dict; a missing or incompatible
\* checkpoint raises.
LoadStateDict ==
    /\ pc = "load"
    /\ \/ Raise("FileNotFoundError") /\ UNCHANGED loaded
       \/ loaded' = TRUE /\ Goto("eval") /\ UNCHANGED grad_enabled
    /\ UNCHANGED <<datalist, lo, hi, batch_size, images, labels, val_files,
                   training, num_correct, metric_count,
                   saver_created, saver_calls, pos, val_data, val_outputs,
                   value, metric, printed>>

\* Line 61: model.eval().
ModelEval_Skipped ==
    /\ pc = "eval"
    /\ Goto("no_grad")
    /\ UNCHANGED <<datalist, lo, hi, batch_size, images, labels, val_files,
                   loaded, training, grad_enabled, num_correct, metric_count,
                   saver_created, saver_calls, pos, val_data, val_outputs,
                   value, metric, printed>>
ModelEval ==
    /\ pc = "eval"
    /\ training' = FALSE
    /\ Goto("no_grad")
    /\ UNCHANGED <<datalist, lo, hi, batch_size, images, labels, val_files,
                   loaded, grad_enabled, num_correct, metric_count,
                   saver_created, saver_calls, pos, val_data, val_outputs,
                   value, metric, printed>>

\* Line 62: entering `with torch.no_grad()`.
EnterNoGrad ==
    /\ pc = "no_grad"
    /\ grad_enabled' = FALSE
    /\ Goto("init")
    /\ UNCHANGED <<datalist, lo, hi, batch_size, images, labels, val_files,
                   loaded, training, num_correct, metric_count,
                   saver_created, saver_calls, pos, val_data, val_outputs,
                   value, metric, printed>>

\* Lines 63-65: the counters and the saver.
InitCounters ==
    /\ pc = "init"
    /\ num_correct' = 0
    /\ metric_count' = 0
    /\ saver_created' = TRUE
    /\ Goto("fetch")
    /\ UNCHANGED <<datalist, lo, hi, batch_size, images, labels, val_files,
                   loaded, training, grad_enabled,
                   saver_calls, pos, val_data, val_outputs,
                   value, metric, printed>>

\* Lines 66-67: the loop head.  The loader hands out the next batch, or the
\* loop ends; loading an image of the batch may raise.
FetchBatch ==
    /\ pc = "fetch"
    /\ IF Exhausted(pos, Len(val_files), batch_size)
       THEN /\ Goto("metric")
            /\ UNCHANGED <<grad_enabled, pos, val_data>>
       ELSE \/ /\ Raise("RuntimeError")
               /\ UNCHANGED <<pos, val_data>>
            \/ /\ val_data' = Collate(val_files, pos,
                                  BatchSize(pos, Len(val_files), batch_size))
               /\ pos' = pos + BatchSize(pos, Len(val_files), batch_size)
               /\ Goto("forward")
               /\ UNCHANGED grad_enabled
    /\ UNCHANGED <<datalist, lo, hi, batch_size, images, labels, val_files,
                   loaded, training, num_correct, metric_count,
                   saver_created, saver_calls, val_outputs,
                   value, metric, printed>>

\* Line 68: the forward pass and argmax: one class per sample of the batch;
\* the forward pass may raise.
Forward ==
    /\ pc = "forward"
    /\ \/ /\ Raise("RuntimeError")
          /\ UNCHANGED val_outputs
       \/ /\ \E outs \in [1 .. Len(val_data.label) -> Classes] :
                val_outputs' = outs
          /\ Goto("eq")
          /\ UNCHANGED grad_enabled
    /\ UNCHANGED <<datalist, lo, hi, batch_size, images, labels, val_files,
                   loaded, training, num_correct, metric_count,
                   saver_created, saver_calls, pos, val_data,
                   value, metric, printed>>

\* Line 69.
Compare ==
    /\ pc = "eq"
    /\ value' = TorchEq(val_outputs, val_data.label)
    /\ Goto("count")
    /\ UNCHANGED <<datalist, lo, hi, batch_size, images, labels, val_files,
                   loaded, training, grad_enabled, num_correct, metric_count,
                   saver_created, saver_calls, pos, val_data, val_outputs,
                   metric, printed>>

\* Lines 70-71.
Count ==
    /\ pc = "count"
    /\ metric_count' = metric_count + Len(value)
    /\ num_correct' = num_correct + SumTrue(value)
    /\ Goto("save")
    /\ UNCHANGED <<datalist, lo, hi, batch_size, images, labels, val_files,
                   loaded, training, grad_enabled,
                   saver_created, saver_calls, pos, val_data, val_outputs,
                   value, metric, printed>>

\* The call saver.save_batch(val_outputs, val_data["img_meta_dict"]).
\* ok tells whether the call returned (TRUE) or raised (FALSE).
SaveBatchCall_Labels(outs, data, ok) ==
    [op |-> "save_batch", preds |-> data.label, meta |-> data.img_meta_dict,
     ok |-> ok]
SaveBatchCall(outs, data, ok) ==
    [op |-> "save_batch", preds |-> outs, meta |-> data.img_meta_dict,
     ok |-> ok]

\* The call saver.finalize().
FinalizeCall(ok) == [op |-> "finalize", preds |-> <<>>, meta |-> <<>>, ok |-> ok]

\* Line 72; the saver may raise.
SaveBatch ==
    /\ pc = "save"
    /\ \/ /\ saver_calls' =
                Append(saver_calls, SaveBatchCall(val_outputs, val_data, FALSE))
          /\ Raise("OSError")
       \/ /\ saver_calls' =
                Append(saver_calls, SaveBatchCall(val_outputs, val_data, TRUE))
          /\ Goto("fetch")
          /\ UNCHANGED grad_enabled
    /\ UNCHANGED <<datalist, lo, hi, batch_size, images, labels, val_files,
                   loaded, training, num_correct, metric_count,
                   saver_created, pos, val_data, val_outputs,
                   value, metric, printed>>

\* Line 73: the division raises ZeroDivisionError when no sample was counted.
ComputeMetric ==
    /\ pc = "metric"
    /\ IF metric_count = 0
       THEN /\ Raise("ZeroDivisionError")
            /\ UNCHANGED metric
       ELSE /\ metric' = <<Quotient(num_correct, metric_count)>>
            /\ Goto("print")
            /\ UNCHANGED grad_enabled
    /\ UNCHANGED <<datalist, lo, hi, batch_size, images, labels, val_files,
                   loaded, training, num_correct, metric_count,
                   saver_created, saver_calls, pos, val_data, val_outputs,
                   value, printed>>

\* Line 74.
PrintMetric ==
    /\ pc = "print"
    /\ printed' = Append(printed, metric[1])
    /\ Goto("finalize")
    /\ UNCHANGED <<datalist, lo, hi, batch_size, images, labels, val_files,
                   loaded, training, grad_enabled, num_correct, metric_count,
                   saver_created, saver_calls, pos, val_data, val_outputs,
                   value, metric>>

\* Line 75; the saver may raise (it writes the file here).
Finalize ==
    /\ pc = "finalize"
    /\ \/ /\ saver_calls' = Append(saver_calls, FinalizeCall(FALSE))
          /\ Raise("OSError")
       \/ /\ saver_calls' = Append(saver_calls, FinalizeCall(TRUE))
          /\ Goto("exit_no_grad")
          /\ UNCHANGED grad_enabled
    /\ UNCHANGED <<datalist, lo, hi, batch_size, images, labels, val_files,
                   loaded, training, num_correct, metric_count,
                   saver_created, pos, val_data, val_outputs,
                   value, metric, printed>>

\* The end of the `with` block of line 62, and of main().
ExitNoGrad ==
    /\ pc = "exit_no_grad"
    /\ grad_enabled' = TRUE
    /\ Goto("done")
    /\ UNCHANGED <<datalist, lo, hi, batch_size, images, labels, val_files,
                   loaded, training, num_correct, metric_count,
                   saver_created, saver_calls, pos, val_data, val_outputs,
                   value, metric, printed>>

Next ==
    \/ OpenManifest
    \/ BuildImages
    \/ BuildLabels
    \/ BuildValFiles
    \/ LoadStateDict
    \/ ModelEval
    \/ EnterNoGrad
    \/ InitCounters
    \/ FetchBatch
    \/ Forward
    \/ Compare
    \/ Count
    \/ SaveBatch
    \/ ComputeMetric
    \/ PrintMetric
    \/ Finalize
    \/ ExitNoGrad

Spec == Init /\ [][Next]_vars

\* ------------------------------------------------- vocabulary of the claims

\* The number of indices range(lo, hi) selects.
SelK == IF hi > lo THEN hi - lo ELSE 0

\* The manifest entry the j-th sample (j from 1) is built from.
SelEntry(j) == datalist.entry[lo + j]

\* The calls on the saver that returned.
Returned(calls) == SelectSeq(calls, LAMBDA c : c.ok)

\* The predictions and the metadata of these calls, in call order.
RECURSIVE CallPreds(_)
CallPreds(calls) ==
    IF calls = <<>> THEN <<>> ELSE Head(calls).preds \o CallPreds(Tail(calls))

RECURSIVE CallMeta(_)
CallMeta(calls) ==
    IF calls = <<>> THEN <<>> ELSE Head(calls).meta \o CallMeta(Tail(calls))

\* The rows the saver has taken so far: those of the calls that returned.
SavedPreds == CallPreds(Returned(saver_calls))
SavedMeta == CallMeta(Returned(saver_calls))

\* The save_batch and finalize calls made so far, returned or not.
SaveCalls == {c \in 1 .. Len(saver_calls) : saver_calls[c].op = "save_batch"}
FinalizeCalls == {c \in 1 .. Len(saver_calls) : saver_calls[c].op = "finalize"}

\* The batches that hold the first p samples when batches hold b samples.
NumBatches(p, b) == (p + b - 1) \div b

\* How many of these predictions equal the label of the sample they are for.
Matches(preds) ==
    Cardinality({j \in 1 .. Len(preds) : preds[j] = val_files[j].label})

\* The evaluation loop has ended without an exception inside it.
LoopEnded ==
    \/ pc \in {"metric", "print", "finalize", "exit_no_grad", "done"}
    \/ err = "ZeroDivisionError"
    \/ FinalizeCalls # {}

\* main() has ended, by returning or by an exception.
Ended == pc \in {"done", "abort"}

\* Some selected index is past the manifest, or its entry lacks a field.
SelectionMalformed ==
    /\ SelK > 0
    /\ \/ ~datalist.has_entry
       \/ hi > Len(datalist.entry)
       \/ \E j \in 1 .. SelK :
             /\ lo + j <= Len(datalist.entry)
             /\ ~SelEntry(j).has_url \/ ~SelEntry(j).has_text

\* C1: when the evaluation loop ends, metric_count is the number of
\* validation samples, for every number of samples and every batch size,
\* whether or not the batch size divides the number of samples.
C1_TotalIsSampleCount ==
    LoopEnded => metric_count = Len(val_files) /\ metric_count = SelK

\* C1's case: the loop has ended over three samples taken two at a time, the
\* last batch holding one.
C1_Witness ==
    /\ pc = "metric"
    /\ batch_size = 2
    /\ Len(val_files) = 3
    /\ metric_count = 3

\* C3: on every exit path after the saver was created, finalize has been
\* called exactly once, and after the last save_batch.
C3_FinalizedOnEveryExit ==
    (Ended /\ saver_created)
        => /\ Cardinality(FinalizeCalls) = 1
           /\ saver_calls[Len(saver_calls)].op = "finalize"

\* C4: a sample's label is 0 exactly when its entry's note text is "man" and
\* 1 for every other text; no other label is produced; and a manifest is
\* rejected only for a selected index past its end or a missing field, never
\* for a text.
C4_LabelMapping ==
    /\ pc \notin {"open", "images", "labels", "abort"} =>
          /\ Len(labels) = SelK
          /\ \A j \in 1 .. Len(labels) :
                /\ labels[j] \in {0, 1}
                /\ labels[j] = 0 <=> SelEntry(j).text = "man"
    /\ err \in {"IndexError", "KeyError"} => SelectionMalformed

\* C4's case: the labels are built from entries with the texts "man", ""
\* and "Man".
C4_Witness ==
    /\ pc = "val_files"
    /\ Len(labels) = 3
    /\ {SelEntry(j).text : j \in 1 .. 3} = {"man", "", "Man"}

\* C5: val_files has one sample per selected index, and its j-th sample pairs
\* the image path and the label of the j-th selected manifest entry: the
\* path is the entry's url, under dirpath when the url is relative.
C5_ValFilesFollowManifest ==
    pc \notin {"open", "images", "labels", "val_files", "abort"} =>
        /\ Len(val_files) = SelK
        /\ \A j \in 1 .. Len(val_files) :
              /\ val_files[j].img.name = SelEntry(j).url.name
              /\ Head(SelEntry(j).url.dir \o <<"">>) = "/" =>
                    val_files[j].img = SelEntry(j).url
              /\ Head(SelEntry(j).url.dir \o <<"">>) # "/" =>
                    val_files[j].img.dir = dirpath \o SelEntry(j).url.dir
              /\ val_files[j].label = 0 <=> SelEntry(j).text = "man"
              /\ val_files[j].label = 1 <=> SelEntry(j).text # "man"

\* C5's case: a sub-range that starts after the first entry, with two samples
\* of different labels, one of them with an absolute url.
C5_Witness ==
    /\ pc = "load"
    /\ lo = 1
    /\ Len(val_files) = 2
    /\ val_files[1].label # val_files[2].label
    /\ val_files[2].img.dir = <<"/", "abs">>

\* C6: 0 <= correct <= total in every state; after every batch update
\* correct is the number of predictions so far that equal their label; and a
\* reported accuracy is correct/total with 0 <= correct <= total, total > 0.
C6_AccuracyInUnitInterval ==
    /\ 0 <= num_correct /\ num_correct <= metric_count
    /\ pc = "save" => num_correct = Matches(SavedPreds \o val_outputs)
    /\ (pc = "fetch" \/ LoopEnded) => num_correct = Matches(SavedPreds)
    /\ \A j \in 1 .. Len(printed) :
          /\ printed[j].num = num_correct
          /\ printed[j].den = metric_count
          /\ printed[j].den > 0
          /\ 0 <= printed[j].num /\ printed[j].num <= printed[j].den

\* C6's case: an accuracy strictly between 0 and 1 has been reported.
C6_Witness ==
    /\ printed # <<>>
    /\ 0 < printed[1].num
    /\ printed[1].num < printed[1].den

\* C7: the accuracy is computed and reported at most once, only after the
\* loader is exhausted and every batch was counted and saved; the counters
\* are zero before the first batch and grow by each batch once; the saver is
\* finalized only after the report; a run that returns has reported once.
C7_ReportAfterLoop ==
    /\ Len(metric) <= 1 /\ Len(printed) <= 1
    /\ pc = "fetch" =>
          /\ metric_count = pos
          /\ pos = 0 => num_correct = 0
          /\ Cardinality(SaveCalls) = NumBatches(pos, batch_size)
    /\ metric # <<>> =>
          /\ pos = Len(val_files)
          /\ metric_count = Len(val_files)
          /\ Len(SavedPreds) = Len(val_files)
          /\ Cardinality(SaveCalls) = NumBatches(Len(val_files), batch_size)
          /\ metric[1] = Quotient(num_correct, metric_count)
    /\ metric = <<>> => printed = <<>>
    /\ printed # <<>> => printed[1] = metric[1]
    /\ FinalizeCalls # {} => Len(printed) = 1
    /\ pc = "done" =>
          /\ Len(printed) = 1
          /\ Cardinality(FinalizeCalls) = 1
          /\ saver_calls[Len(saver_calls)] = FinalizeCall(TRUE)

\* C7's case: a run over two batches has returned.
C7_Witness ==
    /\ pc = "done"
    /\ Cardinality(SaveCalls) = 2
    /\ Len(printed) = 1

\* C8: every forward pass runs on a model that holds the checkpoint and is
\* in inference mode, with gradient bookkeeping disabled.
C8_ForwardInInferenceMode ==
    /\ pc \in {"fetch", "forward", "eq", "count", "save"} =>
          loaded /\ ~training /\ ~grad_enabled
    /\ val_outputs # <<>> => loaded /\ ~training

\* C8's case: a forward pass has just run.
C8_Witness ==
    /\ pc = "eq"
    /\ val_outputs # <<>>

\* C9: one save_batch call per batch, in order, carrying the batch's own
\* predictions and the paths of the batch's own samples; after a complete
\* run the saver has one row per sample, in sample order.
C9_OneRowPerSample ==
    /\ \A c \in SaveCalls :
          /\ c = 1 \/ saver_calls[c - 1].op = "save_batch"
          /\ Len(saver_calls[c].preds) = Len(saver_calls[c].meta)
          /\ \A j \in 1 .. Len(saver_calls[c].meta) :
                saver_calls[c].meta[j] = val_files[(c - 1) * batch_size + j].img
          /\ Len(saver_calls[c].meta) =
                BatchSize((c - 1) * batch_size, Len(val_files), batch_size)
    /\ pc = "fetch" =>
          /\ Cardinality(SaveCalls) = NumBatches(pos, batch_size)
          /\ pos > 0 =>
                /\ saver_calls[Len(saver_calls)].preds = val_outputs
                /\ saver_calls[Len(saver_calls)].meta = val_data.img_meta_dict
    /\ pc = "done" =>
          /\ Len(SavedPreds) = Len(val_files)
          /\ SavedMeta = [j \in 1 .. Len(val_files) |-> val_files[j].img]
          /\ Matches(SavedPreds) = num_correct

\* C9's case: a complete run over three samples in batches of two.
C9_Witness ==
    /\ pc = "done"
    /\ batch_size = 2
    /\ Len(SavedPreds) = 3

\* C10 as stated: an exception at any step, writing included, ends the run
\* before any accuracy is printed.
C10_NothingPrintedOnError ==
    err # "none" => pc = "abort" /\ printed = <<>>

\* C10 as amended: an exception at any step ends the run: no statement runs
\* after it, so nothing is printed after it and the saver is left as it is;
\* and an exception of any statement but saver.finalize() (line 75, which
\* follows the print of line 74) ends the run with nothing printed.
C10_ErrorHalts ==
    /\ [](err # "none" => pc = "abort")
    /\ []((err # "none" /\ FinalizeCalls = {}) => printed = <<>>)
    /\ [][err # "none" =>
            /\ pc' = "abort"
            /\ err' = err
            /\ printed' = printed
            /\ saver_calls' = saver_calls]_vars
    /\ [][(err = "none" /\ err' # "none" /\ pc # "finalize") =>
            printed' = <<>>]_vars

\* C10's case: the run was aborted by an exception in the loop after a batch
\* had been handed to the saver.
C10_Witness ==
    /\ pc = "abort"
    /\ err = "RuntimeError"
    /\ saver_calls # <<>>
    /\ printed = <<>>

====
